---- MODULE Spec2Model ----
(***************************************************************************)
(* Model of Hand_gesture_mouse_control.py: the camera thread capture_loop  *)
(* (cursor mapping and smoothing, exit gesture, grab and click latches,    *)
(* hand-off through tip_queue) and the Qt timer callback update_overlay.   *)
(*                                                                         *)
(* Normalized landmark coordinates, the margin, the smoothing factor and   *)
(* the curl thresholds are kept in hundredths (0.10 is 10, 0.30 is 30), so *)
(* that every quotient of the program is an exact quotient of integers.    *)
(* The landmark values enumerated in Hands are values on which the         *)
(* double-precision evaluation of the program and the exact quotient give  *)
(* the same pixel.                                                         *)
(***************************************************************************)
EXTENDS Integers, Sequences, FiniteSets, TLC

\* ---- bounds of the model ------------------------------------------------
\* frames the camera delivers in one run, the overlay timer running
MaxFrames == 3
\* frames the camera delivers in one run of capture_loop taken alone
MaxLoopFrames == 4

\* ---- program constants (hundredths) -------------------------------------
SMOOTH_ALPHA == 30
CAMERA_MARGIN == 10
CURL_THRESHOLD == 4
STRONG_UP_THRESHOLD == 4
Unit == 100
scr_w == 1920
scr_h == 1080
QueueMaxSize == 1

\* ---- inputs --------------------------------------------------------------
\* landmark indices read by capture_loop
INDEX_PIP == 6
INDEX_TIP == 8
MIDDLE_PIP == 10
MIDDLE_TIP == 12
RING_PIP == 14
RING_TIP == 16
PINKY_PIP == 18
PINKY_TIP == 20
fingertip_indices == {8, 12, 16, 20}

Pt(px, py) == [x |-> px, y |-> py]

\* positions of the index tip, of the middle tip (y), of the ring and pinky tips (y)
IndexTips == {Pt(50, 50), Pt(90, 40)}
MiddleYs == {40, 52, 60}
RingYs == {40, 60}
PinkyYs == {40, 60}

\* the landmark lists hands.process may report for one hand (the joints stay put)
Hands ==
    { [i \in {6, 8, 10, 12, 14, 16, 18, 20} |->
          CASE i = 8  -> it
            [] i = 6  -> Pt(50, 46)
            [] i = 12 -> Pt(50, my)
            [] i = 16 -> Pt(50, ry)
            [] i = 20 -> Pt(50, py)
            [] OTHER  -> Pt(50, 50)] :
        it \in IndexTips, my \in MiddleYs, ry \in RingYs, py \in PinkyYs }

\* res.multi_hand_landmarks is None
NoHand == [i \in {} |-> Pt(0, 0)]

\* cv2.waitKey(1) & 0xFF: no key, ESC, q
Keys == {255, 27, 113}

VARIABLES
    pc,                    \* camera thread: "start", "run", "nocam", "ended", "exited"
    prev_x, prev_y,        \* cursor state
    middle_grabbed, pinky_was_down, ring_was_down, all_fingers_were_down,
    tip_queue,             \* queue.Queue(maxsize=1)
    overlay,               \* OverlayWindow.tips / .active_gestures
    buttons,               \* state of the pointer's buttons
    position,              \* mouse.position
    acts,                  \* mouse actions emitted by the latest cycle, in order
    cycle,                 \* what the latest cycle of the loop saw
    nframes,               \* frames processed so far
    nterm,                 \* terminate signals emitted so far
    grab_presses,          \* press(left) emitted by the grab so far
    grab_releases,         \* release(left) emitted by the grab so far
    last_out,              \* FrameOutput of the latest completed frame
    first_out,             \* FrameOutput of the first frame completed since the last take
    mv, mm, mres,          \* map_with_margin: argument, margin, result (d = 0: none yet)
    fix_raw,               \* the raw position of a hand that holds still
    tick,                  \* parity of the frames of the hand that holds still
    events,                \* what the latest cycle did, in program order
    slot_no,               \* frame numbers of the outputs waiting in tip_queue
    taken_no               \* frame number of the output taken last (0: none yet)

vars == <<pc, prev_x, prev_y, middle_grabbed, pinky_was_down, ring_was_down,
          all_fingers_were_down, tip_queue, overlay, buttons, position, acts,
          cycle, nframes, nterm, grab_presses, grab_releases, last_out, first_out,
          mv, mm, mres, fix_raw, tick, events, slot_no, taken_no>>

latches == <<middle_grabbed, pinky_was_down, ring_was_down, all_fingers_were_down>>
cursor == <<prev_x, prev_y>>
mapvars == <<mv, mm, mres, fix_raw, tick>>
counts == <<nframes, nterm, grab_presses, grab_releases>>
channel_nos == <<slot_no, taken_no>>

\* ---- helpers -------------------------------------------------------------
Min(a, b) == IF a < b THEN a ELSE b
Max(a, b) == IF a > b THEN a ELSE b

\* int(n / d) for d > 0: truncation toward zero
Trunc(n, d) == IF n >= 0 THEN n \div d ELSE -((-n) \div d)

\* a quotient n / d with d > 0
Q(n, d) == [n |-> n, d |-> d]

\* a mapping that does not limit its result
map_unclamped(val, margin) == Q(val - margin, Unit - 2 * margin)

\* map_with_margin(val, margin), val and margin in hundredths; the result is
\* the quotient (val - margin) / (1 - 2 * margin) limited to [0, 1]
map_with_margin(val, margin) ==
    LET num == val - margin
        den == Unit - 2 * margin
    IN  Q(Min(Max(num, 0), den), den)

\* int(q * scale)
ToPixel(q, scale) == Trunc(q.n * scale, q.d)

\* a smoothing step that goes past the raw position (factor 1.30)
SmoothOvershoot(prev, raw) == Trunc(Unit * prev + 130 * (raw - prev), Unit)

\* a smoothing step with a tenth of the gap instead of three tenths
SmoothSluggish(prev, raw) == Trunc(Unit * prev + 10 * (raw - prev), Unit)

\* a smoothing step that rounds to the nearest pixel
SmoothRounded(prev, raw) == Trunc(Unit * prev + SMOOTH_ALPHA * (raw - prev) + 50, Unit)

\* int(prev + SMOOTH_ALPHA * (raw - prev))
Smooth(prev, raw) == Trunc(Unit * prev + SMOOTH_ALPHA * (raw - prev), Unit)

\* mouse actions
MoveTo(px, py) == [op |-> "move", button |-> "none", by |-> "index", x |-> px, y |-> py]
Press(b, who) == [op |-> "press", button |-> b, by |-> who, x |-> 0, y |-> 0]
Release(b, who) == [op |-> "release", button |-> b, by |-> who, x |-> 0, y |-> 0]
Terminate == [op |-> "terminate", button |-> "none", by |-> "exit", x |-> 0, y |-> 0]

\* the pointer: effect of one action on the button state
ApplyButton(bs, a) ==
    CASE a.op = "press"   -> [bs EXCEPT ![a.button] = TRUE]
      [] a.op = "release" -> [bs EXCEPT ![a.button] = FALSE]
      [] OTHER            -> bs

\* number of times the action a occurs in the sequence as
Occurs(a, as) == Cardinality({i \in DOMAIN as : as[i] = a})

RECURSIVE ApplyAll(_, _)
ApplyAll(bs, as) ==
    IF as = <<>> THEN bs ELSE ApplyAll(ApplyButton(bs, Head(as)), Tail(as))

EmptyDict == [i \in {} |-> 0]
FrameOutput(tips, active) == [tips |-> tips, active |-> active]
EmptyOutput == FrameOutput(EmptyDict, EmptyDict)
NoOutput == [tips |-> <<"none">>, active |-> <<"none">>]

\* what one cycle of the loop saw: kind is "none", "fail", "nohand" or "hand"
Cycle(kind, tip, f, raw, put) ==
    [kind |-> kind, tip_x |-> tip.x, tip_y |-> tip.y, middle_down |-> f.middle_down, ring_down |-> f.ring_down,
     pinky_down |-> f.pinky_down, index_down |-> f.index_down, index_strong_up |-> f.index_strong_up,
     pinky_strong_up |-> f.pinky_strong_up,
     middle_strong_down |-> f.middle_strong_down,
     ring_strong_down |-> f.ring_strong_down,
     raw_x |-> raw[1], raw_y |-> raw[2], put |-> put]

NoFingers == [middle_down |-> FALSE, ring_down |-> FALSE, pinky_down |-> FALSE,
              index_down |-> FALSE,
              index_strong_up |-> FALSE, pinky_strong_up |-> FALSE,
              middle_strong_down |-> FALSE, ring_strong_down |-> FALSE]

\* one entry of the log of a cycle: the block of the loop body it belongs to
\* ("cursor", "classify", "exit", "grab", "ring", "pinky"), what was done ("move",
\* "press", "release", "terminate", "classify", "write") and to what
Ev(step, ev, what) == [step |-> step, ev |-> ev, what |-> what]

\* the log of a grab or click block: its mouse actions, then the write of its latch
StepLog(step, s, latch) ==
    [i \in 1..Len(s.acts) |-> Ev(step, s.acts[i].op, s.acts[i].button)]
       \o (IF s.written THEN <<Ev(step, "write", latch)>> ELSE <<>>)

\* the log of the cursor block: mouse.position, then prev_x, prev_y
CursorLog ==
    <<Ev("cursor", "move", "position"), Ev("cursor", "write", "prev_x"),
      Ev("cursor", "write", "prev_y")>>

\* the log of the finger tests
ClassifyLog == <<Ev("classify", "classify", "fingers")>>

\* the log of the termination branch
ExitLog(exit) ==
    IF exit THEN <<Ev("exit", "terminate", "process")>>
    ELSE <<Ev("exit", "write", "all_fingers_were_down")>>

\* ---- capture_loop: classification ----------------------------------------
Classify(lm) ==
    [middle_down |-> lm[MIDDLE_TIP].y > lm[MIDDLE_PIP].y,
     ring_down |-> lm[RING_TIP].y > lm[RING_PIP].y,
     pinky_down |-> lm[PINKY_TIP].y > lm[PINKY_PIP].y,
     index_down |-> lm[INDEX_TIP].y > lm[INDEX_PIP].y,
     index_strong_up |-> lm[INDEX_TIP].y < lm[INDEX_PIP].y - STRONG_UP_THRESHOLD,
     pinky_strong_up |-> lm[PINKY_TIP].y < lm[PINKY_PIP].y - STRONG_UP_THRESHOLD,
     middle_strong_down |-> lm[MIDDLE_TIP].y > lm[MIDDLE_PIP].y + CURL_THRESHOLD,
     ring_strong_down |-> lm[RING_TIP].y > lm[RING_PIP].y + CURL_THRESHOLD]

\* the condition of the termination branch
Qualifies(f) ==
    f.index_strong_up /\ f.pinky_strong_up /\ f.middle_strong_down /\ f.ring_strong_down

\* a termination branch that wants the gesture on two frames in a row
ExitStepSecondFrame(qualifies, were_down) ==
    [exit |-> qualifies /\ were_down, latch |-> qualifies]

\* the termination branch: os._exit(0) is reached, and the value of the latch after it
ExitStep(qualifies, were_down) ==
    [exit |-> qualifies /\ ~were_down, latch |-> qualifies]

\* a grab that presses on every frame that finds the finger down
GrabStepRepress(middle_down, grabbed) ==
    IF middle_down
    THEN [acts |-> <<Press("left", "grab")>>, latch |-> TRUE, active |-> TRUE,
          written |-> TRUE]
    ELSE [acts |-> IF grabbed THEN <<Release("left", "grab")>> ELSE <<>>,
          latch |-> FALSE, active |-> FALSE, written |-> grabbed]

\* grab with the middle finger
GrabStep(middle_down, grabbed) ==
    IF middle_down
    THEN [acts |-> IF ~grabbed THEN <<Press("left", "grab")>> ELSE <<>>,
          latch |-> TRUE, active |-> TRUE, written |-> ~grabbed]
    ELSE [acts |-> IF grabbed THEN <<Release("left", "grab")>> ELSE <<>>,
          latch |-> FALSE, active |-> FALSE, written |-> grabbed]

\* a click that ignores its latch: it repeats while the finger stays down
ClickStepRepeat(down, was_down, b, who) ==
    IF down
    THEN [acts |-> <<Press(b, who), Release(b, who)>>, latch |-> TRUE, active |-> TRUE,
          written |-> TRUE]
    ELSE [acts |-> <<>>, latch |-> FALSE, active |-> FALSE, written |-> TRUE]

\* a click whose flag is raised only on the frame that fires it
ClickStepFlagOnFire(down, was_down, b, who) ==
    IF down
    THEN [acts |-> IF ~was_down THEN <<Press(b, who), Release(b, who)>> ELSE <<>>,
          latch |-> TRUE, active |-> ~was_down, written |-> ~was_down]
    ELSE [acts |-> <<>>, latch |-> FALSE, active |-> FALSE, written |-> TRUE]

\* a click that never lowers its latch
ClickStepNoReset(down, was_down, b, who) ==
    IF down
    THEN [acts |-> IF ~was_down THEN <<Press(b, who), Release(b, who)>> ELSE <<>>,
          latch |-> TRUE, active |-> TRUE, written |-> ~was_down]
    ELSE [acts |-> <<>>, latch |-> was_down, active |-> FALSE, written |-> FALSE]

\* single click per press, ring (right button) and pinky (left button)
ClickStep(down, was_down, b, who) ==
    IF down
    THEN [acts |-> IF ~was_down THEN <<Press(b, who), Release(b, who)>> ELSE <<>>,
          latch |-> TRUE, active |-> TRUE, written |-> ~was_down]
    ELSE [acts |-> <<>>, latch |-> FALSE, active |-> FALSE, written |-> TRUE]

\* "i in lm": lm is the list of landmark messages, and no message equals an integer
InLm(lm, i) == FALSE

\* the four fingertips in screen coordinates
TipsScr(lm) ==
    LET S == {i \in fingertip_indices : InLm(lm, i)}
    IN  [i \in S |-> <<ToPixel(map_with_margin(lm[i].x, CAMERA_MARGIN), scr_w),
                       ToPixel(map_with_margin(lm[i].y, CAMERA_MARGIN), scr_h)>>]

\* a stack without a size limit: the newest item is handed out first
put_front(q, item) == <<item>> \o q

\* a queue without a size limit
put_unbounded(q, item) == Append(q, item)

\* a slot whose newest value replaces the waiting one
put_overwrite(q, item) == IF Len(q) < QueueMaxSize THEN Append(q, item) ELSE <<item>>

\* tip_queue.put_nowait(item), queue.Full swallowed
put_nowait(q, item) == IF Len(q) < QueueMaxSize THEN Append(q, item) ELSE q

\* a loop body that tests the exit gesture after the grab and the clicks
ProcessHandLateExit(lm) ==
    LET f == Classify(lm)
        cursor_x == ToPixel(map_with_margin(lm[INDEX_TIP].x, CAMERA_MARGIN), scr_w)
        cursor_y == ToPixel(map_with_margin(lm[INDEX_TIP].y, CAMERA_MARGIN), scr_h)
        smooth_x == Smooth(prev_x, cursor_x)
        smooth_y == Smooth(prev_y, cursor_y)
        ex == ExitStep(Qualifies(f), all_fingers_were_down)
        g == GrabStep(f.middle_down, middle_grabbed)
        r == ClickStep(f.ring_down, ring_was_down, "right", "ring")
        p == ClickStep(f.pinky_down, pinky_was_down, "left", "pinky")
    IN  [exit |-> ex.exit, tip |-> lm[INDEX_TIP], f |-> f, raw |-> <<cursor_x, cursor_y>>,
         x |-> smooth_x, y |-> smooth_y,
         acts |-> <<MoveTo(smooth_x, smooth_y)>> \o g.acts \o r.acts \o p.acts
                    \o (IF ex.exit THEN <<Terminate>> ELSE <<>>),
         grabbed |-> g.latch, ring |-> r.latch, pinky |-> p.latch,
         were_down |-> ex.latch,
         log |-> CursorLog \o ClassifyLog \o StepLog("grab", g, "middle_grabbed")
                   \o StepLog("ring", r, "ring_was_down")
                   \o StepLog("pinky", p, "pinky_was_down") \o ExitLog(ex.exit),
         out |-> FrameOutput(TipsScr(lm),
                    (8 :> TRUE) @@ (12 :> g.active) @@ (16 :> r.active)
                                @@ (20 :> p.active))]

\* a loop body that classifies, tests the exit gesture and updates the latches
\* first, and moves the cursor last
ProcessHandCursorLast(lm) ==
    LET f == Classify(lm)
        cursor_x == ToPixel(map_with_margin(lm[INDEX_TIP].x, CAMERA_MARGIN), scr_w)
        cursor_y == ToPixel(map_with_margin(lm[INDEX_TIP].y, CAMERA_MARGIN), scr_h)
        smooth_x == Smooth(prev_x, cursor_x)
        smooth_y == Smooth(prev_y, cursor_y)
        ex == ExitStep(Qualifies(f), all_fingers_were_down)
        g == GrabStep(f.middle_down, middle_grabbed)
        r == ClickStep(f.ring_down, ring_was_down, "right", "ring")
        p == ClickStep(f.pinky_down, pinky_was_down, "left", "pinky")
    IN  IF ex.exit
        THEN [exit |-> TRUE, tip |-> lm[INDEX_TIP], f |-> f, raw |-> <<cursor_x, cursor_y>>,
              x |-> prev_x, y |-> prev_y,
              acts |-> <<Terminate>>,
              grabbed |-> middle_grabbed, ring |-> ring_was_down,
              pinky |-> pinky_was_down, were_down |-> all_fingers_were_down,
              log |-> ClassifyLog \o ExitLog(TRUE),
              out |-> NoOutput]
        ELSE [exit |-> FALSE, tip |-> lm[INDEX_TIP], f |-> f, raw |-> <<cursor_x, cursor_y>>,
              x |-> smooth_x, y |-> smooth_y,
              acts |-> g.acts \o r.acts \o p.acts \o <<MoveTo(smooth_x, smooth_y)>>,
              grabbed |-> g.latch, ring |-> r.latch, pinky |-> p.latch,
              were_down |-> ex.latch,
              log |-> ClassifyLog \o ExitLog(FALSE)
                        \o StepLog("grab", g, "middle_grabbed")
                        \o StepLog("ring", r, "ring_was_down")
                        \o StepLog("pinky", p, "pinky_was_down") \o CursorLog,
              out |-> FrameOutput(TipsScr(lm),
                         (8 :> TRUE) @@ (12 :> g.active) @@ (16 :> r.active)
                                     @@ (20 :> p.active))]

\* the loop body from the cursor update to the last latch, for a detected hand
ProcessHand(lm) ==
    LET f == Classify(lm)
        cursor_x == ToPixel(map_with_margin(lm[INDEX_TIP].x, CAMERA_MARGIN), scr_w)
        cursor_y == ToPixel(map_with_margin(lm[INDEX_TIP].y, CAMERA_MARGIN), scr_h)
        smooth_x == Smooth(prev_x, cursor_x)
        smooth_y == Smooth(prev_y, cursor_y)
        ex == ExitStep(Qualifies(f), all_fingers_were_down)
        g == GrabStep(f.middle_down, middle_grabbed)
        r == ClickStep(f.ring_down, ring_was_down, "right", "ring")
        p == ClickStep(f.pinky_down, pinky_was_down, "left", "pinky")
    IN  IF ex.exit
        THEN [exit |-> TRUE, tip |-> lm[INDEX_TIP], f |-> f, raw |-> <<cursor_x, cursor_y>>,
              x |-> smooth_x, y |-> smooth_y,
              acts |-> <<MoveTo(smooth_x, smooth_y), Terminate>>,
              grabbed |-> middle_grabbed, ring |-> ring_was_down,
              pinky |-> pinky_was_down, were_down |-> all_fingers_were_down,
              log |-> CursorLog \o ClassifyLog \o ExitLog(TRUE),
              out |-> NoOutput]
        ELSE [exit |-> FALSE, tip |-> lm[INDEX_TIP], f |-> f, raw |-> <<cursor_x, cursor_y>>,
              x |-> smooth_x, y |-> smooth_y,
              acts |-> <<MoveTo(smooth_x, smooth_y)>> \o g.acts \o r.acts \o p.acts,
              grabbed |-> g.latch, ring |-> r.latch, pinky |-> p.latch,
              were_down |-> ex.latch,
              log |-> CursorLog \o ClassifyLog \o ExitLog(FALSE)
                        \o StepLog("grab", g, "middle_grabbed")
                        \o StepLog("ring", r, "ring_was_down")
                        \o StepLog("pinky", p, "pinky_was_down"),
              out |-> FrameOutput(TipsScr(lm),
                         (8 :> TRUE) @@ (12 :> g.active) @@ (16 :> r.active)
                                     @@ (20 :> p.active))]

\* a loop body that lets go of the grab when the hand is lost
ProcessNoHandRelease ==
    [exit |-> FALSE, tip |-> Pt(0, 0), f |-> NoFingers, raw |-> <<0, 0>>,
     x |-> prev_x, y |-> prev_y,
     acts |-> IF middle_grabbed THEN <<Release("left", "grab")>> ELSE <<>>,
     grabbed |-> FALSE, ring |-> FALSE, pinky |-> FALSE,
     were_down |-> all_fingers_were_down, log |-> <<>>, out |-> EmptyOutput]

\* the loop body when res.multi_hand_landmarks is None
ProcessNoHand ==
    [exit |-> FALSE, tip |-> Pt(0, 0), f |-> NoFingers, raw |-> <<0, 0>>, x |-> prev_x, y |-> prev_y,
     acts |-> <<>>, grabbed |-> middle_grabbed, ring |-> ring_was_down,
     pinky |-> pinky_was_down, were_down |-> all_fingers_were_down,
     log |-> <<>>, out |-> EmptyOutput]

\* ---- the state machine ---------------------------------------------------
InitRest ==
    /\ pc = "start"
    /\ middle_grabbed = FALSE
    /\ pinky_was_down = FALSE
    /\ ring_was_down = FALSE
    /\ all_fingers_were_down = FALSE
    /\ tip_queue = <<>>
    /\ overlay = EmptyOutput
    /\ buttons = [left |-> FALSE, right |-> FALSE]
    /\ position = <<0, 0>>
    /\ acts = <<>>
    /\ cycle = Cycle("none", Pt(0, 0), NoFingers, <<0, 0>>, "none")
    /\ nframes = 0
    /\ nterm = 0
    /\ grab_presses = 0
    /\ grab_releases = 0
    /\ last_out = NoOutput
    /\ first_out = NoOutput
    /\ events = <<>>
    /\ slot_no = <<>>
    /\ taken_no = 0

InitProgram == InitRest /\ prev_x = 0 /\ prev_y = 0

InitStill == fix_raw = <<0, 0>> /\ tick = 0

Init == InitProgram /\ mv = 0 /\ mm = 0 /\ mres = Q(0, 0) /\ InitStill

\* cv2.VideoCapture(CAMERA_INDEX); "Camera not found" returns from the thread
OpenCamera ==
    /\ pc = "start"
    /\ \E opened \in BOOLEAN : pc' = IF opened THEN "run" ELSE "nocam"
    /\ UNCHANGED <<cursor, latches, tip_queue, overlay, buttons, position, acts,
                   cycle, counts, last_out, first_out, mapvars, events, channel_nos>>

\* a read failure that breaks out of the loop
ReadFailEnds ==
    /\ pc = "run"
    /\ pc' = "ended"
    /\ cycle' = Cycle("fail", Pt(0, 0), NoFingers, <<0, 0>>, "none")
    /\ acts' = <<>>
    /\ events' = <<>>
    /\ UNCHANGED <<cursor, latches, tip_queue, overlay, buttons, position,
                   counts, last_out, first_out, mapvars, channel_nos>>

\* cap.read() gives no frame: sleep and retry
ReadFail ==
    /\ pc = "run"
    /\ cycle' = Cycle("fail", Pt(0, 0), NoFingers, <<0, 0>>, "none")
    /\ acts' = <<>>
    /\ events' = <<>>
    /\ UNCHANGED <<pc, cursor, latches, tip_queue, overlay, buttons, position,
                   counts, last_out, first_out, mapvars, channel_nos>>

\* an exit that only logs and lets the loop go on
AfterExitGoOn == "run"

\* os._exit(0) ends the process
AfterExit == "exited"

\* one iteration of the loop on a frame: hands.process, the cursor, the gestures,
\* the hand-off and the key test
LoopBody(limit) ==
    /\ pc = "run"
    /\ nframes < limit
    /\ \E lm \in Hands \cup {NoHand} :
       \E r \in {IF lm = NoHand THEN ProcessNoHand ELSE ProcessHand(lm)} :
         LET kind == IF lm = NoHand THEN "nohand" ELSE "hand"
         IN  /\ prev_x' = r.x /\ prev_y' = r.y
             /\ position' = IF lm = NoHand THEN position ELSE <<r.x, r.y>>
             /\ middle_grabbed' = r.grabbed
             /\ ring_was_down' = r.ring
             /\ pinky_was_down' = r.pinky
             /\ all_fingers_were_down' = r.were_down
             /\ acts' = r.acts
             /\ events' = r.log
             /\ buttons' = ApplyAll(buttons, r.acts)
             /\ nframes' = nframes + 1
             /\ grab_presses' = grab_presses + Occurs(Press("left", "grab"), r.acts)
             /\ grab_releases' = grab_releases + Occurs(Release("left", "grab"), r.acts)
             /\ IF r.exit
                THEN /\ pc' = AfterExit
                     /\ nterm' = nterm + 1
                     /\ cycle' = Cycle(kind, r.tip, r.f, r.raw, "none")
                     /\ UNCHANGED <<tip_queue, slot_no, last_out, first_out>>
                ELSE /\ tip_queue' = put_nowait(tip_queue, r.out)
                     /\ slot_no' = put_nowait(slot_no, nframes')
                     /\ cycle' = Cycle(kind, r.tip, r.f, r.raw,
                                       IF Len(tip_queue) < QueueMaxSize
                                       THEN "stored" ELSE "dropped")
                     /\ last_out' = r.out
                     /\ first_out' = IF first_out = NoOutput THEN r.out ELSE first_out
                     /\ \E key \in Keys :
                          pc' = IF key \in {27, 113} THEN "ended" ELSE "run"
                     /\ UNCHANGED nterm
    /\ UNCHANGED <<overlay, mapvars, taken_no>>

Frame == LoopBody(MaxFrames)

LoopFrame == LoopBody(MaxLoopFrames)

\* update_tips(tips, active_gestures)
update_tips(tips, active_gestures) == FrameOutput(tips, active_gestures)

\* the timer callback: tip_queue.get_nowait(), queue.Empty swallowed, then re-armed
update_overlay ==
    /\ pc # "exited"
    /\ IF tip_queue # <<>>
       THEN /\ overlay' = update_tips(Head(tip_queue).tips, Head(tip_queue).active)
            /\ tip_queue' = Tail(tip_queue)
            /\ first_out' = NoOutput
            /\ taken_no' = Head(slot_no)
            /\ slot_no' = Tail(slot_no)
       ELSE UNCHANGED <<overlay, tip_queue, first_out, channel_nos>>
    /\ UNCHANGED <<pc, cursor, latches, buttons, position, acts, cycle, counts,
                   last_out, mapvars, events>>

\* the program: camera thread and overlay timer
Next == OpenCamera \/ ReadFail \/ Frame \/ update_overlay

Spec == Init /\ [][Next]_vars

\* capture_loop taken alone: its locals and the mouse are touched by no other thread
NextLoop == OpenCamera \/ ReadFail \/ LoopFrame

SpecLoop == Init /\ [][NextLoop]_vars

\* map_with_margin on its own: every value and every margin of the grid
Values == 0..Unit
Margins == {m \in 0..Unit : 2 * m < Unit}

InitMap ==
    InitProgram /\ mv \in Values /\ mm \in Margins /\ mres = Q(0, 0) /\ InitStill

CallMap ==
    /\ mres.d = 0
    /\ mres' = map_with_margin(mv, mm)
    /\ UNCHANGED <<pc, cursor, latches, tip_queue, overlay, buttons, position, acts,
                   cycle, counts, last_out, first_out, mv, mm, fix_raw, tick,
                   events, channel_nos>>

NextMap == CallMap

SpecMap == InitMap /\ [][NextMap]_vars

\* the cursor update on its own, for a hand that holds still: the same raw position
\* on every frame, from cursor states all over the screen; the camera keeps
\* delivering frames
StartPoints == {<<0, 0>>, <<959, 541>>, <<963, 537>>, <<300, 900>>, <<1500, 200>>, <<1920, 1080>>}
RawPoints == {<<0, 0>>, <<960, 540>>, <<1920, 1080>>}

InitSmooth ==
    /\ InitRest
    /\ mv = 0 /\ mm = 0 /\ mres = Q(0, 0)
    /\ tick = 0
    /\ fix_raw \in RawPoints
    /\ \E start \in StartPoints : prev_x = start[1] /\ prev_y = start[2]

SmoothFrame ==
    /\ prev_x' = Smooth(prev_x, fix_raw[1])
    /\ prev_y' = Smooth(prev_y, fix_raw[2])
    /\ position' = <<prev_x', prev_y'>>
    /\ acts' = <<MoveTo(prev_x', prev_y')>>
    /\ tick' = 1 - tick
    /\ UNCHANGED <<pc, latches, tip_queue, overlay, buttons, cycle, counts,
                   last_out, first_out, mv, mm, mres, fix_raw, events, channel_nos>>

NextSmooth == SmoothFrame

SpecSmooth == InitSmooth /\ [][NextSmooth]_vars /\ WF_vars(SmoothFrame)

\* ---- steps and actions named by the properties ---------------------------
\* a step of the loop that processed a frame, one with a hand, one without
FrameStep == nframes' = nframes + 1
HandStep == FrameStep /\ cycle'.kind = "hand"
NoHandStep == FrameStep /\ cycle'.kind = "nohand"
\* the step in which the exit gesture ends the process
ExitingStep == FrameStep /\ pc' = "exited"

GrabPress == Press("left", "grab")
GrabRelease == Release("left", "grab")

\* number of full clicks (press immediately followed by release) of button b by who
Clicks(b, who, as) ==
    Cardinality({i \in 1..(Len(as) - 1) :
                    as[i] = Press(b, who) /\ as[i + 1] = Release(b, who)})

\* the actions of who in as are exactly n full clicks of button b
ExactlyClicks(n, b, who, as) ==
    /\ Clicks(b, who, as) = n
    /\ Occurs(Press(b, who), as) = n
    /\ Occurs(Release(b, who), as) = n

B2N(b) == IF b THEN 1 ELSE 0

\* ---- C1 -------------------------------------------------------------------
\* C1 as stated: on every hand frame the grab emits press(left) exactly when
\* middle_down holds and middle_grabbed was false, and release(left) exactly when
\* middle_down is false and middle_grabbed was true.
C1_AsStated ==
    [][HandStep =>
          /\ Occurs(GrabPress, acts') = B2N(cycle'.middle_down /\ ~middle_grabbed)
          /\ Occurs(GrabRelease, acts') = B2N(~cycle'.middle_down /\ middle_grabbed)]_vars

\* C1 amended: the same on every hand frame that does not trigger the exit gesture
\* (the exit frame emits nothing for the grab); a frame that finds the finger down
\* and the grab held emits nothing for the grab; grab presses and grab releases
\* alternate starting with a press: the presses outnumber the releases by one
\* while the grab is held and by none otherwise
C1_GrabLatch ==
    /\ [][(HandStep /\ ~ExitingStep) =>
            /\ Occurs(GrabPress, acts') = B2N(cycle'.middle_down /\ ~middle_grabbed)
            /\ Occurs(GrabRelease, acts') = B2N(~cycle'.middle_down /\ middle_grabbed)]_vars
    /\ [][ExitingStep =>
            Occurs(GrabPress, acts') = 0 /\ Occurs(GrabRelease, acts') = 0]_vars
    /\ [](grab_presses - grab_releases = B2N(middle_grabbed))

\* the grab was pressed, released and pressed again, and is held
C1_Witness ==
    /\ grab_presses = 2 /\ grab_releases = 1
    /\ cycle.kind = "hand" /\ cycle.middle_down /\ middle_grabbed
    /\ Occurs(GrabPress, acts) = 1

\* ---- C2 -------------------------------------------------------------------
\* C2 as stated: on every hand frame, ring and pinky each emit one full click
\* exactly when the finger is down and its latch was false, and nothing otherwise
C2_AsStated ==
    [][HandStep =>
          /\ ExactlyClicks(B2N(cycle'.ring_down /\ ~ring_was_down), "right", "ring", acts')
          /\ ExactlyClicks(B2N(cycle'.pinky_down /\ ~pinky_was_down), "left", "pinky", acts')]_vars

\* C2 amended: the same on every hand frame that does not trigger the exit gesture;
\* the exit frame, on which the ring finger is down, emits no click
C2_ClickLatch ==
    /\ [][(HandStep /\ ~ExitingStep) =>
            /\ ExactlyClicks(B2N(cycle'.ring_down /\ ~ring_was_down), "right", "ring", acts')
            /\ ExactlyClicks(B2N(cycle'.pinky_down /\ ~pinky_was_down), "left", "pinky", acts')]_vars
    /\ [][ExitingStep =>
            /\ cycle'.ring_down
            /\ ExactlyClicks(0, "right", "ring", acts')
            /\ ExactlyClicks(0, "left", "pinky", acts')]_vars

\* a fourth frame on which the ring finger clicks while the pinky stays down silently
C2_Witness ==
    /\ nframes = 4 /\ cycle.kind = "hand"
    /\ cycle.ring_down /\ Clicks("right", "ring", acts) = 1
    /\ cycle.pinky_down /\ Clicks("left", "pinky", acts) = 0

\* ---- C3 -------------------------------------------------------------------
\* C3: at most one terminate signal is ever emitted; it is emitted only by a hand
\* frame on which the four strong conditions hold; after it no step of any context
\* changes anything (no frame, no mouse action, no hand-off, no poll)
C3_ExitOneShot ==
    /\ [](nterm <= 1)
    /\ [][/\ (Occurs(Terminate, acts') > 0 /\ FrameStep) => nterm' = nterm + 1
          /\ nterm' # nterm =>
               /\ nterm' = nterm + 1
               /\ Occurs(Terminate, acts') = 1
               /\ cycle'.kind = "hand"
               /\ cycle'.index_strong_up /\ cycle'.pinky_strong_up
               /\ cycle'.middle_strong_down /\ cycle'.ring_strong_down
          /\ nterm >= 1 => UNCHANGED vars]_vars

\* the exit gesture has ended the process on a second frame
C3_Witness == nterm = 1 /\ pc = "exited" /\ nframes = 2 /\ acts[Len(acts)] = Terminate

C5_GrabHeld ==
    (cycle.kind = "hand" /\ cycle.middle_down /\ pc # "exited") => buttons.left

\* ---- C6 -------------------------------------------------------------------
\* C6: a frame without a hand leaves the four latches, the cursor state, the mouse
\* position and the buttons as they were, emits no mouse action, and hands off a
\* FrameOutput whose two maps are empty (stored if the slot is free)
C6_NoHand ==
    [][NoHandStep =>
          /\ UNCHANGED latches
          /\ UNCHANGED <<cursor, position, buttons>>
          /\ UNCHANGED <<nterm, grab_presses, grab_releases>>
          /\ acts' = <<>>
          /\ DOMAIN last_out'.tips = {} /\ DOMAIN last_out'.active = {}
          /\ tip_queue' = IF tip_queue = <<>> THEN <<last_out'>> ELSE tip_queue
          /\ pc' # "exited"]_vars

\* the hand left the frame while the grab was held: the left button is still
\* pressed, the cursor is where the hand frame left it, nothing was emitted
C6_Witness ==
    /\ cycle.kind = "nohand" /\ nframes = 3
    /\ middle_grabbed /\ buttons.left /\ grab_releases = 0
    /\ prev_x = 288 /\ prev_y = 162 /\ acts = <<>>

\* ---- C7 -------------------------------------------------------------------
\* C7: tip_queue never holds more than one FrameOutput; a frame that completes
\* while the slot is occupied leaves the slot as it was (its own output is
\* dropped); the loop body is never disabled by the state of the slot
C7_NeverBlocks ==
    /\ [](Len(tip_queue) <= 1)
    /\ [][(FrameStep /\ ~ExitingStep /\ tip_queue # <<>>) =>
            /\ tip_queue' = tip_queue
            /\ cycle'.put = "dropped"
            /\ pc' \in {"run", "ended"}]_vars
    /\ []((pc = "run" /\ nframes < MaxFrames) => ENABLED Frame)

\* a frame completed while the slot held an earlier, different output
C7_Witness ==
    /\ cycle.put = "dropped" /\ pc = "run"
    /\ Len(tip_queue) = 1 /\ tip_queue[1] # last_out

\* ---- C8 -------------------------------------------------------------------
\* a poll that takes a value from the slot
TakeStep == tip_queue # <<>> /\ tip_queue' = <<>>

\* C8 as stated: the value a poll takes is the FrameOutput of the most recent
\* frame the producer has completed
C8_AsStated == [][TakeStep => overlay' = last_out]_vars

\* C8 amended: the value a poll takes is the FrameOutput of the first frame the
\* producer completed since the previous take (since the start for the first
\* take); outputs of frames completed after it and before the take are lost
C8_FirstSinceTake ==
    [][TakeStep => /\ first_out # NoOutput
                   /\ overlay' = first_out
                   /\ first_out' = NoOutput]_vars

\* a poll took a value that was not the output of the latest completed frame
C8_Witness ==
    /\ tip_queue = <<>> /\ first_out = NoOutput /\ last_out # NoOutput
    /\ overlay # last_out /\ DOMAIN overlay.active # {}

Dist(a, b) == IF a >= b THEN a - b ELSE b - a

\* C11 as stated: with the same raw position on every frame the cursor state is
\* eventually within one pixel of it on each axis, and stays there
C11_AsStated ==
    <>[](Dist(prev_x, fix_raw[1]) <= 1 /\ Dist(prev_y, fix_raw[2]) <= 1)

\* C11 amended: with the same raw position on every frame the cursor state is
\* eventually within three pixels of it on each axis and never beyond it
\* (raw - 3 <= cursor <= raw), and stays there
C11_Converges ==
    <>[](/\ fix_raw[1] - 3 <= prev_x /\ prev_x <= fix_raw[1]
         /\ fix_raw[2] - 3 <= prev_y /\ prev_y <= fix_raw[2])

\* the cursor came up from (0,0) and rests three pixels short of the raw position
C11_Witness ==
    /\ fix_raw = <<960, 540>> /\ prev_x = 957 /\ prev_y = 537
    /\ acts = <<MoveTo(957, 537)>>

\* ---- C12 ------------------------------------------------------------------
\* a cycle in which cap.read gave no frame, after a cycle of another kind
FailStep == cycle'.kind = "fail" /\ cycle.kind # "fail"

\* C12: a cycle in which no frame is available changes no latch and no cursor
\* state, emits no mouse action, puts nothing in the channel, counts as no frame
\* and leaves the loop running; after it the next read is attempted, and a
\* failure that follows a failure changes nothing at all
C12_ReadFailure ==
    /\ [][FailStep =>
            /\ UNCHANGED latches
            /\ UNCHANGED <<cursor, position, buttons>>
            /\ UNCHANGED <<tip_queue, last_out, first_out, overlay>>
            /\ UNCHANGED counts
            /\ acts' = <<>> /\ cycle'.put = "none"
            /\ pc' = "run"]_vars
    /\ [][(cycle.kind = "fail" /\ cycle'.kind = "fail") =>
            UNCHANGED <<pc, latches, cursor, position, buttons, acts, cycle, counts,
                        last_out>>]_vars
    /\ [](cycle.kind = "fail" => (pc = "run" /\ acts = <<>> /\ ENABLED ReadFail))

\* the read failed after two frames, the grab held and an output waiting in the
\* slot: all of it is as the second frame left it
C12_Witness ==
    /\ cycle.kind = "fail" /\ pc = "run" /\ nframes = 2
    /\ middle_grabbed /\ buttons.left /\ prev_x = 489 /\ tip_queue = <<last_out>>

\* ---- C13 ------------------------------------------------------------------
\* C13: once the camera could not be opened no frame is ever processed, no mouse
\* action is emitted, nothing is put in the channel, and nothing keeps running in
\* any context: neither the loop nor the timer callback can take a step
C13_FatalStartup ==
    pc = "nocam" =>
      /\ nframes = 0 /\ cycle.kind = "none"
      /\ acts = <<>> /\ buttons = [left |-> FALSE, right |-> FALSE]
      /\ tip_queue = <<>> /\ last_out = NoOutput
      /\ ~ENABLED Frame /\ ~ENABLED ReadFail
      /\ ~ENABLED update_overlay

\* ---- C14 ------------------------------------------------------------------
\* places in the log of a cycle: the cursor work (move-to, writes of prev_x and
\* prev_y), the finger tests, the presses and releases, the writes of a variable
CursorIdx(e) == {i \in DOMAIN e : e[i].step = "cursor"}
ClassifyIdx(e) == {i \in DOMAIN e : e[i].ev = "classify"}
ButtonIdx(e) == {i \in DOMAIN e : e[i].ev \in {"press", "release"}}
WriteIdx(e, v) == {i \in DOMAIN e : e[i].ev = "write" /\ e[i].what = v}
MouseIdx(e) == {i \in DOMAIN e : e[i].ev \in {"move", "press", "release", "terminate"}}
WrittenVars == {"prev_x", "prev_y", "all_fingers_were_down", "middle_grabbed",
                "ring_was_down", "pinky_was_down"}

\* the blocks of the loop body in the order of the program text
Rank(step) ==
    CASE step = "cursor" -> 1 [] step = "classify" -> 2 [] step = "exit" -> 3
      [] step = "grab" -> 4 [] step = "ring" -> 5 [] step = "pinky" -> 6

ExpectedActs ==
    <<MoveTo(prev_x', prev_y')>>
      \o (IF cycle'.middle_down /\ ~middle_grabbed THEN <<GrabPress>>
          ELSE IF ~cycle'.middle_down /\ middle_grabbed THEN <<GrabRelease>>
          ELSE <<>>)
      \o (IF cycle'.ring_down /\ ~ring_was_down
          THEN <<Press("right", "ring"), Release("right", "ring")>> ELSE <<>>)
      \o (IF cycle'.pinky_down /\ ~pinky_was_down
          THEN <<Press("left", "pinky"), Release("left", "pinky")>> ELSE <<>>)

\* C15: the FrameOutput of every hand frame carries the four flags; the index
\* flag is true whether the index finger is curled or not; the middle, ring and
\* pinky flags are the down state of that frame (so the flag of ring and pinky is
\* true on the frame the click fires, and stays true while the finger stays
\* down); the flags only feed the overlay: the mouse actions of a frame are
\* fixed by the finger states, the latches and the cursor, and a step that
\* changes the overlay changes nothing of the loop and nothing of the mouse
C15_ActiveFlags ==
    /\ [][(HandStep /\ ~ExitingStep) =>
            /\ DOMAIN last_out'.active = fingertip_indices
            /\ last_out'.active[8] = TRUE
            /\ last_out'.active[12] = cycle'.middle_down
            /\ last_out'.active[16] = cycle'.ring_down
            /\ last_out'.active[20] = cycle'.pinky_down
            /\ last_out'.active[12] = middle_grabbed'
            /\ last_out'.active[16] = ring_was_down'
            /\ last_out'.active[20] = pinky_was_down'
            /\ Clicks("right", "ring", acts') = 1 => last_out'.active[16]
            /\ Clicks("left", "pinky", acts') = 1 => last_out'.active[20]
            /\ acts' = ExpectedActs]_vars
    /\ [][overlay' # overlay =>
            /\ overlay' = Head(tip_queue)
            /\ UNCHANGED <<pc, cursor, latches, buttons, position, acts, cycle, counts,
                           events, last_out>>]_vars

\* a second frame with the index finger curled and the ring finger still down:
\* the index flag and the ring flag are true, no click was emitted, and the
\* overlay shows these flags
C15_Witness ==
    /\ cycle.kind = "hand" /\ nframes = 2 /\ pc = "run"
    /\ cycle.index_down /\ last_out.active[8]
    /\ cycle.ring_down /\ last_out.active[16] /\ Clicks("right", "ring", acts) = 0
    /\ ~cycle.middle_down /\ ~last_out.active[12]
    /\ overlay = last_out

\* ---- C16 ------------------------------------------------------------------
\* C16: at the end of every hand frame that did not end the process
\* middle_grabbed is the middle_down of the frame, ring_was_down its ring_down
\* and pinky_was_down its pinky_down; every other step (a frame without a hand,
\* a failed read, a poll of the overlay) leaves the three latches as they were
C16_LatchesMirror ==
    /\ [][(HandStep /\ ~ExitingStep) =>
            /\ middle_grabbed' = cycle'.middle_down
            /\ ring_was_down' = cycle'.ring_down
            /\ pinky_was_down' = cycle'.pinky_down]_vars
    /\ [][~HandStep =>
            UNCHANGED <<middle_grabbed, ring_was_down, pinky_was_down>>]_vars
    /\ []((cycle.kind = "hand" /\ pc # "exited") =>
            /\ middle_grabbed = cycle.middle_down
            /\ ring_was_down = cycle.ring_down
            /\ pinky_was_down = cycle.pinky_down)

\* the hand left after a frame with the middle and ring fingers down and the
\* pinky up, which itself followed a frame with the pinky down: the latches
\* are those of the last hand frame
C16_Witness ==
    /\ cycle.kind = "nohand" /\ nframes = 3
    /\ middle_grabbed /\ ring_was_down /\ ~pinky_was_down
    /\ grab_presses = 1 /\ ~buttons.left

\* ---- C17 ------------------------------------------------------------------
\* the four strong conditions hold on the frame of the latest cycle
StrongGesture(c) ==
    c.index_strong_up /\ c.pinky_strong_up /\ c.middle_strong_down /\ c.ring_strong_down

\* C17: all_fingers_were_down is false in every reachable state; so a hand frame
\* ends the process exactly when the four strong conditions hold on it, the
\* first hand frame of the run included
C17_ExitLatchFalse ==
    /\ [](~all_fingers_were_down)
    /\ [][HandStep => (StrongGesture(cycle') <=> ExitingStep)]_vars
    /\ [][(HandStep /\ StrongGesture(cycle')) =>
            (nterm' = nterm + 1 /\ acts'[Len(acts')] = Terminate)]_vars

\* the very first frame showed the gesture and ended the process
C17_Witness ==
    /\ pc = "exited" /\ nframes = 1 /\ nterm = 1
    /\ cycle.kind = "hand" /\ StrongGesture(cycle)
    /\ ~all_fingers_were_down

\* ---- C18 ------------------------------------------------------------------
\* C18: when the exit gesture ends the process while middle_grabbed is true, the
\* press(left) of the grab is matched by no release(left): the left button of
\* the pointer is still pressed in the final state
C18_ExitKeepsGrab ==
    (pc = "exited" /\ middle_grabbed) =>
       (buttons.left /\ grab_presses = grab_releases + 1)

\* ---- C19 ------------------------------------------------------------------
\* n lies between a and b, the ends included
Between(a, n, b) == Min(a, b) <= n /\ n <= Max(a, b)

\* C19: from (0,0) the cursor state stays on the screen, 0 <= prev_x <= scr_w and
\* 0 <= prev_y <= scr_h, in every reachable state; the raw position of every
\* hand frame is on the screen; and the new cursor state of a hand frame lies,
\* on each axis, between the previous value and the raw value of the frame
C19_CursorRange ==
    /\ [](0 <= prev_x /\ prev_x <= scr_w /\ 0 <= prev_y /\ prev_y <= scr_h)
    /\ [][HandStep =>
            /\ 0 <= cycle'.raw_x /\ cycle'.raw_x <= scr_w
            /\ 0 <= cycle'.raw_y /\ cycle'.raw_y <= scr_h
            /\ Between(prev_x, prev_x', cycle'.raw_x)
            /\ Between(prev_y, prev_y', cycle'.raw_y)]_vars
    /\ [][~HandStep => UNCHANGED cursor]_vars

\* after two frames toward the right edge the hand came back to the middle: the
\* cursor went from 979 down to 973, short of the raw 960, and up on the other axis
C19_Witness ==
    /\ nframes = 3 /\ cycle.kind = "hand"
    /\ cycle.raw_x = 960 /\ prev_x = 973
    /\ cycle.raw_y = 540 /\ prev_y = 306

\* ---- C20 ------------------------------------------------------------------
\* a poll that takes a value; a frame whose output went into the slot
Taken == Len(tip_queue') < Len(tip_queue)
Stored == FrameStep /\ Len(tip_queue') > Len(tip_queue)

\* C20: the values the consumer takes are outputs the producer completed, in
\* the order of their frames: what enters the slot is the output of the frame
\* just completed; the slot changes only when a frame stores or a poll takes;
\* a poll takes the waiting output, whose frame number is above that of every
\* output taken before and not above the number of frames completed; a step
\* that finds the slot empty and is not a frame (an empty poll) leaves the slot
\* and the overlay as they were
C20_DeliveryOrder ==
    /\ [](/\ Len(slot_no) = Len(tip_queue)
          /\ taken_no <= nframes
          /\ \A i \in DOMAIN slot_no : taken_no < slot_no[i] /\ slot_no[i] <= nframes)
    /\ [][Stored => /\ tip_queue' = Append(tip_queue, last_out')
                    /\ slot_no' = Append(slot_no, nframes')
                    /\ UNCHANGED <<overlay, taken_no>>]_vars
    /\ [][Taken => /\ overlay' = Head(tip_queue)
                   /\ taken_no' = Head(slot_no)
                   /\ taken_no' > taken_no
                   /\ tip_queue' = Tail(tip_queue)
                   /\ UNCHANGED nframes]_vars
    /\ [][(tip_queue' # tip_queue \/ slot_no' # slot_no \/ taken_no' # taken_no) =>
            (Stored \/ Taken)]_vars
    /\ [][overlay' # overlay => Taken]_vars
    /\ [][(tip_queue = <<>> /\ ~FrameStep) =>
            (tip_queue' = <<>> /\ overlay' = overlay /\ UNCHANGED channel_nos)]_vars

\* the outputs of the first and of the second frame were taken in turn, and the
\* output of the third frame waits in the slot while the overlay shows the second
C20_Witness ==
    /\ nframes = 3 /\ taken_no = 2 /\ slot_no = <<3>>
    /\ tip_queue = <<last_out>> /\ overlay # last_out

====
